---- MODULE Spec2Model ----
(***************************************************************************)
(* OrdinalsVault: the attestation-gated burn/mint bridge                   *)
(* (src/src/contract/OrdinalsVault.ts) as a state machine.                 *)
(*                                                                         *)
(* One action per method the vault declares: recordBurnWithAttestation,    *)
(* mint, setOracle and the three query methods.  The transfer, approval    *)
(* and burn methods the vault inherits from OP721 are not part of the      *)
(* bridge and are left out.  A method that reverts leaves the storage as   *)
(* it was (every throw of the source precedes its first write) and is      *)
(* recorded in `last` with the revert reason.                              *)
(*                                                                         *)
(* The two registries of the repository, CollectionRegistry and            *)
(* OP721Registry (src/src/contract), are state machines of their own over  *)
(* their own storage, one action per method, and buildAttestationHash is   *)
(* applied to its arguments in a fourth one; each specification leaves     *)
(* the contracts it is not about idle.                                     *)
(*                                                                         *)
(* Values.  A u64 is a tuple of 8 bytes, least significant first, so that  *)
(* the FNV-1a arithmetic of hashString / hashAddress is the source's       *)
(* 64-bit arithmetic.  Block heights, nonces, token ids and the            *)
(* collection id are small naturals.  sha256 and ML-DSA are modelled as    *)
(* ideal primitives: sha256 is injective, a signature verifies exactly     *)
(* under the key that made it and for the digest it was made over.         *)
(***************************************************************************)
EXTENDS Integers, Sequences, FiniteSets, TLC

\* ------------------------------------------------------------------ bounds
MaxHeight == 3        \* block heights run 1..MaxHeight
MaxDeadline == 2      \* attestation deadlines are 1..MaxDeadline
MaxNonce == 1         \* nonces are 0..MaxNonce
MaxCollectionId == 1  \* collection id hashes are 0..MaxCollectionId
MaxSupplyBound == 3   \* the vault is deployed with maxSupply in 1..MaxSupplyBound
MaxRegistrations == 3 \* a registry takes at most MaxRegistrations registrations

\* ------------------------------------------------- u64 arithmetic (8 bytes)
U64Zero == <<0, 0, 0, 0, 0, 0, 0, 0>>

\* 14695981039346656037 = 0xCBF29CE484222325
FNV_OFFSET == <<37, 35, 34, 132, 228, 156, 242, 203>>

\* 1099511628211 = 0x00000100000001B3
FNV_PRIME == <<179, 1, 0, 0, 0, 1, 0, 0>>

RECURSIVE xorBits(_, _, _)
xorBits(a, b, n) ==
  IF n = 0 THEN 0
  ELSE ((a + b) % 2) + 2 * xorBits(a \div 2, b \div 2, n - 1)

\* h ^= u64(byte): only the low byte of h can change
xorU8(h, byte) == [h EXCEPT ![1] = xorBits(h[1], byte, 8)]

RECURSIVE columnSum(_, _, _, _)
columnSum(a, b, k, i) ==
  IF i > k THEN 0 ELSE a[i] * b[k + 1 - i] + columnSum(a, b, k, i + 1)

RECURSIVE mulColumns(_, _, _, _)
mulColumns(a, b, k, carry) ==
  IF k > 8 THEN <<>>
  ELSE LET s == carry + columnSum(a, b, k, 1)
       IN  <<s % 256>> \o mulColumns(a, b, k + 1, s \div 256)

\* (a * b) & 0xffffffffffffffff
mulU64(a, b) == mulColumns(a, b, 1, 0)

\* one round of the loop: h ^= u64(bytes[i]); h = (h * prime) & 0xffffffffffffffff
fnvRound(h, byte) == mulU64(xorU8(h, byte), FNV_PRIME)

\* the rounds for bytes[lo..hi] in order, starting from h.  The range is
\* halved, and the left half's value is looked at before the right half
\* starts, only to keep TLC's evaluation stack shallow.
RECURSIVE fnv1a(_, _, _, _)
fnv1a(bytes, h, lo, hi) ==
  IF lo > hi THEN h
  ELSE IF lo = hi THEN fnvRound(h, bytes[lo])
  ELSE LET mid == (lo + hi) \div 2
           left == fnv1a(bytes, h, lo, mid)
       IN  IF Len(left) = 8 THEN fnv1a(bytes, left, mid + 1, hi) ELSE left

\* -------------------------------------------------------------- test data
\* Claim identifiers.  idA and idB are two different strings with the same
\* 64-bit FNV-1a hash (0x129700e1e4c0b474); idC hashes elsewhere.
InscriptionIds == {"2f549b660d3dc1d3i0", "05ebbcc15ef8d2b5i0", "7c1e5a9b03f2d486i0"}

\* String.UTF8.encode on the identifiers above (ASCII, one byte per char)
UTF8encode(s) ==
  CASE s = "2f549b660d3dc1d3i0" ->
         <<50, 102, 53, 52, 57, 98, 54, 54, 48, 100, 51, 100, 99, 49, 100, 51, 105, 48>>
    [] s = "05ebbcc15ef8d2b5i0" ->
         <<48, 53, 101, 98, 98, 99, 99, 49, 53, 101, 102, 56, 100, 50, 98, 53, 105, 48>>
    [] s = "7c1e5a9b03f2d486i0" ->
         <<55, 99, 49, 101, 53, 97, 57, 98, 48, 51, 102, 50, 100, 52, 56, 54, 105, 48>>
    [] s = "7c1e5a9b03f2d486i10" ->
         <<55, 99, 49, 101, 53, 97, 57, 98, 48, 51, 102, 50, 100, 52, 56, 54, 105, 49, 48>>

\* Addresses (32 bytes).  alice and mallory differ in their last 8 bytes and
\* have the same hashAddress (0xc1c9ee70713582d9); the hashAddress of zed is 0.
\* The oracle attests burns made by alice and by zed.
Deployer == "deployer"
Addresses == {"deployer", "alice", "mallory", "zed"}
Burners == {"alice", "zed"}

AddressBytes(a) ==
  CASE a = "alice" ->
         <<63, 154, 124, 16, 210, 232, 75, 101, 161, 195, 247, 9, 46, 109, 91, 72,
           199, 161, 224, 243, 146, 77, 107, 133, 214, 157, 68, 10, 209, 73, 67, 171>>
    [] a = "mallory" ->
         <<63, 154, 124, 16, 210, 232, 75, 101, 161, 195, 247, 9, 46, 109, 91, 72,
           199, 161, 224, 243, 146, 77, 107, 133, 105, 76, 248, 210, 69, 18, 78, 7>>
    [] a = "zed" ->
         <<94, 42, 145, 196, 125, 3, 184, 246, 164, 193, 158, 117, 32, 219, 56, 241,
           198, 167, 9, 75, 226, 93, 49, 0, 153, 183, 171, 182, 118, 119, 30, 179>>
    [] a = "zero" -> [i \in 1..32 |-> 0]
    [] a = "deployer" ->
         <<139, 29, 79, 122, 32, 198, 233, 53, 18, 240, 164, 216, 123, 60, 94, 105,
           1, 210, 244, 166, 184, 192, 225, 53, 121, 36, 104, 10, 206, 19, 87, 155>>
    [] a = "vault" ->
         <<17, 17, 17, 17, 17, 17, 17, 17, 17, 17, 17, 17, 17, 17, 17, 17,
           17, 17, 17, 17, 17, 17, 17, 17, 17, 17, 17, 17, 17, 17, 17, 17>>
    [] a = "otherVault" ->
         <<34, 34, 34, 34, 34, 34, 34, 34, 34, 34, 34, 34, 34, 34, 34, 34,
           34, 34, 34, 34, 34, 34, 34, 34, 34, 34, 34, 34, 34, 34, 34, 34>>

\* Blockchain.contract.address of the vault under study, and a second vault
\* the oracle also signs for
ContractAddress == "vault"
Contracts == {"vault", "otherVault"}

\* the burnAddress string of the deployment calldata
BurnAddress == "bc1pburn"

PublicKeys == {"K1", "K2"}
Deadlines == 1..MaxDeadline
Nonces == 0..MaxNonce
CollectionIds == 0..MaxCollectionId

\* --------------------------------------------------------------- helpers
hexDigit(n) == IF n < 10 THEN 48 + n ELSE 87 + n

RECURSIVE hexChars(_, _)
hexChars(bytes, i) ==
  IF i > Len(bytes) THEN <<>>
  ELSE <<hexDigit(bytes[i] \div 16), hexDigit(bytes[i] % 16)>> \o hexChars(bytes, i + 1)

\* Address.toHex() followed by String.UTF8.encode: "0x" and 64 lowercase digits
toHex(addr) == <<48, 120>> \o hexChars(AddressBytes(addr), 1)

hashString(s) ==
  LET bytes == UTF8encode(s) IN fnv1a(bytes, FNV_OFFSET, 1, Len(bytes))

hashAddress(addr) ==
  LET bytes == toHex(addr) IN fnv1a(bytes, FNV_OFFSET, 1, Len(bytes))

\* the two hashes, computed once
KeyOf == [s \in InscriptionIds |-> hashString(s)] @@ <<>>
FingerprintOf == [a \in Addresses |-> hashAddress(a)] @@ <<>>
Keys == {KeyOf[s] : s \in InscriptionIds}

RECURSIVE bigEndian(_, _)
bigEndian(v, width) ==
  IF width = 0 THEN <<>> ELSE Append(bigEndian(v \div 256, width - 1), v % 256)

writeAddress(addr) == AddressBytes(addr)
writeU32(v) == bigEndian(v, 4)
writeU64(v) == bigEndian(v, 8)
writeU256(v) == bigEndian(v, 32)

sha256(bytes) == [sha256 |-> bytes]

\* the bytes the README has hashed: six fields, the nonce the last
readmeMessage(contract, inscriptionId, burner, deadline, nonce) ==
  LET inscBytes == UTF8encode(inscriptionId)
  IN  writeAddress(contract) \o writeU32(Len(inscBytes)) \o inscBytes
        \o writeAddress(burner) \o writeU64(deadline) \o writeU256(nonce)

\* buildAttestationHash writing the README's six fields
attestationMessage_withoutCollection(contract, inscriptionId, burner, deadline, nonce, collection) ==
  readmeMessage(contract, inscriptionId, burner, deadline, nonce)
\* buildAttestationHash without the contract address at the head of the
\* message
attestationMessage_withoutContractAddress(contract, inscriptionId, burner, deadline, nonce, collection) ==
  LET inscBytes == UTF8encode(inscriptionId)
  IN  writeU32(Len(inscBytes)) \o inscBytes
        \o writeAddress(burner) \o writeU64(deadline) \o writeU256(nonce)
        \o writeU256(collection)

\* the bytes buildAttestationHash writes, for the contract address given
attestationMessage(contract, inscriptionId, burner, deadline, nonce, collection) ==
  LET inscBytes == UTF8encode(inscriptionId)
  IN  writeAddress(contract) \o writeU32(Len(inscBytes)) \o inscBytes
        \o writeAddress(burner) \o writeU64(deadline) \o writeU256(nonce)
        \o writeU256(collection)

AttestationDigest ==
  [t \in Contracts \X InscriptionIds \X Addresses \X Deadlines \X Nonces \X CollectionIds |->
     sha256(attestationMessage(t[1], t[2], t[3], t[4], t[5], t[6]))] @@ <<>>

buildAttestationHash(inscriptionId, burner, deadline, nonce, collection) ==
  AttestationDigest[<<ContractAddress, inscriptionId, burner, deadline, nonce, collection>>]

\* sha256(oraclePublicKey) as a u256; NoKeyHash is a u256 no key hashes to
KeyHash(pk) == [sha256 |-> pk]
NoKeyHash == [sha256 |-> "none"]
KeyHashes == {KeyHash(pk) : pk \in PublicKeys} \cup {NoKeyHash}

\* An ML-DSA-44 signature made with the secret key of `pk` over the
\* attestation for `contract`
OracleSign(pk, contract, inscriptionId, burner, deadline, nonce, collection) ==
  [signer |-> pk,
   digest |-> AttestationDigest[<<contract, inscriptionId, burner, deadline, nonce, collection>>]]

\* the same oracle signing the digest of the README's layout instead
ReadmeDigest ==
  [t \in Contracts \X InscriptionIds \X Addresses \X Deadlines \X Nonces |->
     sha256(readmeMessage(t[1], t[2], t[3], t[4], t[5]))] @@ <<>>

ReadmeSign(pk, contract, inscriptionId, burner, deadline, nonce) ==
  [signer |-> pk, digest |-> ReadmeDigest[<<contract, inscriptionId, burner, deadline, nonce>>]]

\* bytes that are no key's signature of anything
GarbageSig == [signer |-> "none", digest |-> sha256(<<>>)]

\* a verification that looks at the signing key only, not at what was signed
verifyMLDSASignature_ignoresHash(pk, sig, hash) == sig.signer = pk

verifyMLDSASignature(pk, sig, hash) == sig.signer = pk /\ sig.digest = hash

\* The signatures a submitter may attach to the fields it submits: the
\* oracle's signature of exactly these fields, that signature with one
\* component replaced (another key, another vault, another value of one
\* field), the oracle's signature of these fields in the README's layout, or
\* garbage.
Signatures(pk, i, b, d, n, c) ==
  {OracleSign(k, ContractAddress, i, b, d, n, c) : k \in PublicKeys}
    \cup {OracleSign(pk, v, i, b, d, n, c) : v \in Contracts}
    \cup {OracleSign(pk, ContractAddress, j, b, d, n, c) : j \in InscriptionIds}
    \cup {OracleSign(pk, ContractAddress, i, a, d, n, c) : a \in Burners}
    \cup {OracleSign(pk, ContractAddress, i, b, e, n, c) : e \in Deadlines}
    \cup {OracleSign(pk, ContractAddress, i, b, d, m, c) : m \in Nonces}
    \cup {OracleSign(pk, ContractAddress, i, b, d, n, x) : x \in CollectionIds}
    \cup {ReadmeSign(pk, ContractAddress, i, b, d, n)}
    \cup {GarbageSig}

\* ------------------------------------------------------------------ state
VARIABLES
  blockNumber,          \* Blockchain.block.number
  usedNonces,           \* _usedNonces: nonce -> 0 | 1
  verifiedBurns,        \* _verifiedBurns: key -> hashAddress(burner) | 0
  burnBlockHeights,     \* _burnBlockHeights: key -> height | 0
  mintedInscriptions,   \* _mintedInscriptions: key -> tokenId + 1 | 0
  oracleKeyHash,        \* _oracleKeyHash
  collectionIdHash,     \* _collectionIdHash
  burnAddress,          \* _burnAddress
  maxSupply,            \* OP721 _maxSupply
  nextTokenId,          \* OP721 _nextTokenId
  totalSupply,          \* OP721 _totalSupply
  ownerOf,              \* OP721 ownerOfMap: tokenId -> owner | "none"
  tokenURI,             \* OP721 tokenURIMap: tokenId -> uri | ""
  claimant,             \* history: key -> the burner named in the accepted
                        \* attestation | "none" (storage keeps only its hash)
  last,                 \* history: the last call made, its method and result
  collectionCount,      \* CollectionRegistry _collectionCount
  collectionVaults,     \* CollectionRegistry _collectionVaults: id hash -> u256
  collectionIndex,      \* CollectionRegistry _collectionIndex: index -> id hash
  count,                \* OP721Registry _count
  byIndex,              \* OP721Registry _byIndex: index -> u256
  registered,           \* OP721Registry _registered: sha256(address) -> 0 | 1
  deployer,             \* OP721Registry _deployer: sha256(address) -> u256
  msgFields,            \* the arguments of the last buildAttestationHash
  msg                   \* buildAttestationHash: the bytes written to msg

storage == <<usedNonces, verifiedBurns, burnBlockHeights, mintedInscriptions,
             oracleKeyHash, collectionIdHash, burnAddress, maxSupply, nextTokenId,
             totalSupply, ownerOf, tokenURI>>

vars == <<blockNumber, usedNonces, verifiedBurns, burnBlockHeights, mintedInscriptions,
          oracleKeyHash, collectionIdHash, burnAddress, maxSupply, nextTokenId,
          totalSupply, ownerOf, tokenURI, claimant, last>>

\* the storage of the two registry contracts
registries == <<collectionCount, collectionVaults, collectionIndex,
                count, byIndex, registered, deployer>>

hashing == <<msgFields, msg>>

allvars == <<vars, registries, hashing>>

TokenIds == 1..(MaxSupplyBound + 1)

\* onDeployment: the deployer picks maxSupply, the oracle key hash and the
\* collection id; every map is empty and OP721 starts its counter at 1
Init ==
  /\ blockNumber = 1
  /\ usedNonces = [n \in Nonces |-> 0]
  /\ verifiedBurns = [k \in Keys |-> U64Zero]
  /\ burnBlockHeights = [k \in Keys |-> 0]
  /\ mintedInscriptions = [k \in Keys |-> 0]
  /\ oracleKeyHash = KeyHash("K1")
  /\ collectionIdHash \in CollectionIds
  /\ burnAddress = BurnAddress
  /\ maxSupply \in 1..MaxSupplyBound
  /\ nextTokenId = 1
  /\ totalSupply = 0
  /\ ownerOf = [t \in TokenIds |-> "none"]
  /\ tokenURI = [t \in TokenIds |-> ""]
  /\ claimant = [k \in Keys |-> "none"]
  /\ last = [op |-> "onDeployment", result |-> "ok"]

\* ---------------------------------------------- recordBurnWithAttestation
\* recordBurnWithAttestation without the anti-replay check of lines 169-172
recordResult_withoutNonceCheck(inscriptionId, burner, deadline, nonce, collection, oraclePublicKey, oracleSig) ==
  LET key == KeyOf[inscriptionId] IN
  IF blockNumber > deadline THEN "Expired"
  ELSE IF verifiedBurns[key] # U64Zero THEN "AlreadyRecorded"
  ELSE IF mintedInscriptions[key] # 0 THEN "AlreadyMinted"
  ELSE IF collectionIdHash # 0 /\ collection # collectionIdHash THEN "CollectionMismatch"
  ELSE IF KeyHash(oraclePublicKey) # oracleKeyHash THEN "UnknownOracleKey"
  ELSE IF ~verifyMLDSASignature(oraclePublicKey, oracleSig,
             buildAttestationHash(inscriptionId, burner, deadline, nonce, collection))
       THEN "InvalidSignature"
  ELSE "ok"

\* recordBurnWithAttestation without the key check of lines 192-197
recordResult_withoutKeyCheck(inscriptionId, burner, deadline, nonce, collection, oraclePublicKey, oracleSig) ==
  LET key == KeyOf[inscriptionId] IN
  IF blockNumber > deadline THEN "Expired"
  ELSE IF usedNonces[nonce] # 0 THEN "NonceReused"
  ELSE IF verifiedBurns[key] # U64Zero THEN "AlreadyRecorded"
  ELSE IF mintedInscriptions[key] # 0 THEN "AlreadyMinted"
  ELSE IF collectionIdHash # 0 /\ collection # collectionIdHash THEN "CollectionMismatch"
  ELSE IF ~verifyMLDSASignature(oraclePublicKey, oracleSig,
             buildAttestationHash(inscriptionId, burner, deadline, nonce, collection))
       THEN "InvalidSignature"
  ELSE "ok"

\* recordBurnWithAttestation with the key check of lines 192-197 moved before
\* the collection check of lines 183-190
recordResult_keyCheckFirst(inscriptionId, burner, deadline, nonce, collection, oraclePublicKey, oracleSig) ==
  LET key == KeyOf[inscriptionId] IN
  IF blockNumber > deadline THEN "Expired"
  ELSE IF usedNonces[nonce] # 0 THEN "NonceReused"
  ELSE IF verifiedBurns[key] # U64Zero THEN "AlreadyRecorded"
  ELSE IF mintedInscriptions[key] # 0 THEN "AlreadyMinted"
  ELSE IF KeyHash(oraclePublicKey) # oracleKeyHash THEN "UnknownOracleKey"
  ELSE IF collectionIdHash # 0 /\ collection # collectionIdHash THEN "CollectionMismatch"
  ELSE IF ~verifyMLDSASignature(oraclePublicKey, oracleSig,
             buildAttestationHash(inscriptionId, burner, deadline, nonce, collection))
       THEN "InvalidSignature"
  ELSE "ok"

\* recordBurnWithAttestation comparing the height with >= where line 165 has >
recordResult_expiresAtDeadline(inscriptionId, burner, deadline, nonce, collection, oraclePublicKey, oracleSig) ==
  LET key == KeyOf[inscriptionId] IN
  IF blockNumber >= deadline THEN "Expired"
  ELSE IF usedNonces[nonce] # 0 THEN "NonceReused"
  ELSE IF verifiedBurns[key] # U64Zero THEN "AlreadyRecorded"
  ELSE IF mintedInscriptions[key] # 0 THEN "AlreadyMinted"
  ELSE IF collectionIdHash # 0 /\ collection # collectionIdHash THEN "CollectionMismatch"
  ELSE IF KeyHash(oraclePublicKey) # oracleKeyHash THEN "UnknownOracleKey"
  ELSE IF ~verifyMLDSASignature(oraclePublicKey, oracleSig,
             buildAttestationHash(inscriptionId, burner, deadline, nonce, collection))
       THEN "InvalidSignature"
  ELSE "ok"
\* recordBurnWithAttestation with the minted check of lines 179-181 moved
\* before the recorded check of lines 176-178
recordResult_mintedCheckFirst(inscriptionId, burner, deadline, nonce, collection, oraclePublicKey, oracleSig) ==
  LET key == KeyOf[inscriptionId] IN
  IF blockNumber > deadline THEN "Expired"
  ELSE IF usedNonces[nonce] # 0 THEN "NonceReused"
  ELSE IF mintedInscriptions[key] # 0 THEN "AlreadyMinted"
  ELSE IF verifiedBurns[key] # U64Zero THEN "AlreadyRecorded"
  ELSE IF collectionIdHash # 0 /\ collection # collectionIdHash THEN "CollectionMismatch"
  ELSE IF KeyHash(oraclePublicKey) # oracleKeyHash THEN "UnknownOracleKey"
  ELSE IF ~verifyMLDSASignature(oraclePublicKey, oracleSig,
             buildAttestationHash(inscriptionId, burner, deadline, nonce, collection))
       THEN "InvalidSignature"
  ELSE "ok"

\* the checks of recordBurnWithAttestation in the source's order: the
\* revert reason, or "ok"
recordResult(inscriptionId, burner, deadline, nonce, collection, oraclePublicKey, oracleSig) ==
  LET key == KeyOf[inscriptionId] IN
  IF blockNumber > deadline THEN "Expired"
  ELSE IF usedNonces[nonce] # 0 THEN "NonceReused"
  ELSE IF verifiedBurns[key] # U64Zero THEN "AlreadyRecorded"
  ELSE IF mintedInscriptions[key] # 0 THEN "AlreadyMinted"
  ELSE IF collectionIdHash # 0 /\ collection # collectionIdHash THEN "CollectionMismatch"
  ELSE IF KeyHash(oraclePublicKey) # oracleKeyHash THEN "UnknownOracleKey"
  ELSE IF ~verifyMLDSASignature(oraclePublicKey, oracleSig,
             buildAttestationHash(inscriptionId, burner, deadline, nonce, collection))
       THEN "InvalidSignature"
  ELSE "ok"

\* recordBurnWithAttestation marking the nonce as soon as it is found unused,
\* and returning (not reverting) when a later check fails
recordBurnWithAttestation_marksNonceEarly(inscriptionId, burner, deadline, nonce, collection, oraclePublicKey, oracleSig) ==
  LET key == KeyOf[inscriptionId]
      result == recordResult(inscriptionId, burner, deadline, nonce, collection,
                             oraclePublicKey, oracleSig)
  IN  /\ last' = [op |-> "recordBurnWithAttestation", result |-> result]
      /\ IF result = "ok"
         THEN /\ usedNonces' = [usedNonces EXCEPT ![nonce] = 1]
              /\ verifiedBurns' = [verifiedBurns EXCEPT ![key] = FingerprintOf[burner]]
              /\ burnBlockHeights' = [burnBlockHeights EXCEPT ![key] = blockNumber]
              /\ claimant' = [claimant EXCEPT ![key] = burner]
         ELSE /\ usedNonces' = IF result \in {"Expired", "NonceReused"}
                               THEN usedNonces
                               ELSE [usedNonces EXCEPT ![nonce] = 1]
              /\ UNCHANGED <<verifiedBurns, burnBlockHeights, claimant>>
      /\ UNCHANGED <<blockNumber, mintedInscriptions, oracleKeyHash, collectionIdHash, burnAddress,
                     maxSupply, nextTokenId, totalSupply, ownerOf, tokenURI>>

\* recordBurnWithAttestation without the write of line 208
recordBurnWithAttestation_withoutHeight(inscriptionId, burner, deadline, nonce, collection, oraclePublicKey, oracleSig) ==
  LET key == KeyOf[inscriptionId]
      result == recordResult(inscriptionId, burner, deadline, nonce, collection,
                             oraclePublicKey, oracleSig)
  IN  /\ last' = [op |-> "recordBurnWithAttestation", result |-> result]
      /\ IF result = "ok"
         THEN /\ usedNonces' = [usedNonces EXCEPT ![nonce] = 1]
              /\ verifiedBurns' = [verifiedBurns EXCEPT ![key] = FingerprintOf[burner]]
              /\ claimant' = [claimant EXCEPT ![key] = burner]
              /\ UNCHANGED <<burnBlockHeights, mintedInscriptions, oracleKeyHash,
                             collectionIdHash, burnAddress, maxSupply, nextTokenId, totalSupply,
                             ownerOf, tokenURI>>
         ELSE UNCHANGED <<storage, claimant>>
      /\ UNCHANGED blockNumber

recordBurnWithAttestation(inscriptionId, burner, deadline, nonce, collection, oraclePublicKey, oracleSig) ==
  LET key == KeyOf[inscriptionId]
      result == recordResult(inscriptionId, burner, deadline, nonce, collection,
                             oraclePublicKey, oracleSig)
  IN  /\ last' = [op |-> "recordBurnWithAttestation", result |-> result]
      /\ IF result = "ok"
         THEN /\ usedNonces' = [usedNonces EXCEPT ![nonce] = 1]
              /\ verifiedBurns' = [verifiedBurns EXCEPT ![key] = FingerprintOf[burner]]
              /\ burnBlockHeights' = [burnBlockHeights EXCEPT ![key] = blockNumber]
              /\ claimant' = [claimant EXCEPT ![key] = burner]
              /\ UNCHANGED <<mintedInscriptions, oracleKeyHash, collectionIdHash, burnAddress,
                             maxSupply, nextTokenId, totalSupply, ownerOf, tokenURI>>
         ELSE UNCHANGED <<storage, claimant>>
      /\ UNCHANGED blockNumber

\* recordBurnWithAttestation recording the submitter as the burner
recordBurnWithAttestationBy_burnerIsSender(sender, inscriptionId, burner, deadline, nonce, collection, oraclePublicKey, oracleSig) ==
  recordBurnWithAttestation(inscriptionId, sender, deadline, nonce, collection,
                            oraclePublicKey, oracleSig)

\* recordBurnWithAttestation called by `sender`: the method never reads
\* Blockchain.tx.sender
recordBurnWithAttestationBy(sender, inscriptionId, burner, deadline, nonce, collection, oraclePublicKey, oracleSig) ==
  recordBurnWithAttestation(inscriptionId, burner, deadline, nonce, collection,
                            oraclePublicKey, oracleSig)

\* ------------------------------------------------------------------- mint
\* mint without the double-mint check of lines 249-251
mintResult_withoutMintedCheck(inscriptionId, caller) ==
  LET key == KeyOf[inscriptionId] IN
  IF verifiedBurns[key] = U64Zero THEN "NotRecorded"
  ELSE IF verifiedBurns[key] # FingerprintOf[caller] THEN "WrongClaimant"
  ELSE IF ~(blockNumber > burnBlockHeights[key]) THEN "ConfirmationPending"
  ELSE IF nextTokenId >= maxSupply THEN "SupplyExhausted"
  ELSE IF ownerOf[nextTokenId] # "none" \/ totalSupply >= maxSupply THEN "MintReverted"
  ELSE "ok"

\* mint comparing the heights with >= where line 245 has >
mintResult_sameBlockAllowed(inscriptionId, caller) ==
  LET key == KeyOf[inscriptionId] IN
  IF verifiedBurns[key] = U64Zero THEN "NotRecorded"
  ELSE IF verifiedBurns[key] # FingerprintOf[caller] THEN "WrongClaimant"
  ELSE IF ~(blockNumber >= burnBlockHeights[key]) THEN "ConfirmationPending"
  ELSE IF mintedInscriptions[key] # 0 THEN "AlreadyMinted"
  ELSE IF nextTokenId >= maxSupply THEN "SupplyExhausted"
  ELSE IF ownerOf[nextTokenId] # "none" \/ totalSupply >= maxSupply THEN "MintReverted"
  ELSE "ok"

\* mint without the supply check of lines 253-256 (the check of _mint remains)
mintResult_withoutSupplyCheck(inscriptionId, caller) ==
  LET key == KeyOf[inscriptionId] IN
  IF verifiedBurns[key] = U64Zero THEN "NotRecorded"
  ELSE IF verifiedBurns[key] # FingerprintOf[caller] THEN "WrongClaimant"
  ELSE IF ~(blockNumber > burnBlockHeights[key]) THEN "ConfirmationPending"
  ELSE IF mintedInscriptions[key] # 0 THEN "AlreadyMinted"
  ELSE IF ownerOf[nextTokenId] # "none" \/ totalSupply >= maxSupply THEN "MintReverted"
  ELSE "ok"
\* mint with a deadline check: rejected once the height has passed every
\* deadline an attestation may carry
mintResult_withDeadlineCheck(inscriptionId, caller) ==
  LET key == KeyOf[inscriptionId] IN
  IF blockNumber > MaxDeadline THEN "Expired"
  ELSE IF verifiedBurns[key] = U64Zero THEN "NotRecorded"
  ELSE IF verifiedBurns[key] # FingerprintOf[caller] THEN "WrongClaimant"
  ELSE IF ~(blockNumber > burnBlockHeights[key]) THEN "ConfirmationPending"
  ELSE IF mintedInscriptions[key] # 0 THEN "AlreadyMinted"
  ELSE IF nextTokenId >= maxSupply THEN "SupplyExhausted"
  ELSE IF ownerOf[nextTokenId] # "none" \/ totalSupply >= maxSupply THEN "MintReverted"
  ELSE "ok"

\* the checks of mint in the source's order: the revert reason, or "ok"
mintResult(inscriptionId, caller) ==
  LET key == KeyOf[inscriptionId] IN
  IF verifiedBurns[key] = U64Zero THEN "NotRecorded"
  ELSE IF verifiedBurns[key] # FingerprintOf[caller] THEN "WrongClaimant"
  ELSE IF ~(blockNumber > burnBlockHeights[key]) THEN "ConfirmationPending"
  ELSE IF mintedInscriptions[key] # 0 THEN "AlreadyMinted"
  ELSE IF nextTokenId >= maxSupply THEN "SupplyExhausted"
  ELSE IF ownerOf[nextTokenId] # "none" \/ totalSupply >= maxSupply THEN "MintReverted"
  ELSE "ok"

\* mint storing tokenId, not tokenId + 1, as the minted marker
mint_markerIsTokenId(inscriptionId, caller) ==
  LET key == KeyOf[inscriptionId]
      tokenId == nextTokenId
      result == mintResult(inscriptionId, caller)
  IN  /\ last' = [op |-> "mint", result |-> result]
      /\ IF result = "ok"
         THEN /\ ownerOf' = [ownerOf EXCEPT ![tokenId] = caller]
              /\ totalSupply' = totalSupply + 1
              /\ nextTokenId' = tokenId + 1
              /\ tokenURI' = [tokenURI EXCEPT ![tokenId] = inscriptionId]
              /\ mintedInscriptions' = [mintedInscriptions EXCEPT ![key] = tokenId]
              /\ UNCHANGED <<usedNonces, verifiedBurns, burnBlockHeights,
                             oracleKeyHash, collectionIdHash, burnAddress, maxSupply>>
         ELSE UNCHANGED storage
      /\ UNCHANGED <<blockNumber, claimant>>

\* mint writing the minted marker before the confirmation check, and
\* returning (not reverting) when that check fails
mint_marksBeforeConfirmation(inscriptionId, caller) ==
  LET key == KeyOf[inscriptionId]
      tokenId == nextTokenId
      result == mintResult(inscriptionId, caller)
  IN  /\ last' = [op |-> "mint", result |-> result]
      /\ IF result = "ok"
         THEN /\ ownerOf' = [ownerOf EXCEPT ![tokenId] = caller]
              /\ totalSupply' = totalSupply + 1
              /\ nextTokenId' = tokenId + 1
              /\ tokenURI' = [tokenURI EXCEPT ![tokenId] = inscriptionId]
              /\ mintedInscriptions' = [mintedInscriptions EXCEPT ![key] = tokenId + 1]
              /\ UNCHANGED <<usedNonces, verifiedBurns, burnBlockHeights,
                             oracleKeyHash, collectionIdHash, burnAddress, maxSupply>>
         ELSE /\ mintedInscriptions' = IF result = "ConfirmationPending"
                                       THEN [mintedInscriptions EXCEPT ![key] = tokenId + 1]
                                       ELSE mintedInscriptions
              /\ UNCHANGED <<usedNonces, verifiedBurns, burnBlockHeights, oracleKeyHash,
                             collectionIdHash, burnAddress, maxSupply, nextTokenId, totalSupply,
                             ownerOf, tokenURI>>
      /\ UNCHANGED <<blockNumber, claimant>>

\* the token id mint writes to its response (lines 253, 263-264)
mintReturns(inscriptionId, caller) == nextTokenId

mint(inscriptionId, caller) ==
  LET key == KeyOf[inscriptionId]
      tokenId == nextTokenId
      result == mintResult(inscriptionId, caller)
  IN  /\ last' = [op |-> "mint", result |-> result]
      /\ IF result = "ok"
         THEN /\ ownerOf' = [ownerOf EXCEPT ![tokenId] = caller]
              /\ totalSupply' = totalSupply + 1
              /\ nextTokenId' = tokenId + 1
              /\ tokenURI' = [tokenURI EXCEPT ![tokenId] = inscriptionId]
              /\ mintedInscriptions' = [mintedInscriptions EXCEPT ![key] = tokenId + 1]
              /\ UNCHANGED <<usedNonces, verifiedBurns, burnBlockHeights,
                             oracleKeyHash, collectionIdHash, burnAddress, maxSupply>>
         ELSE UNCHANGED storage
      /\ UNCHANGED <<blockNumber, claimant>>

\* -------------------------------------------------------------- setOracle
\* setOracle without the onlyDeployer check of line 283
setOracleResult_anyCaller(caller) == "ok"

setOracleResult(caller) == IF caller # Deployer THEN "Unauthorized" ELSE "ok"
\* setOracle writing the new fingerprint before its onlyDeployer check
setOracle_writesBeforeCheck(newKeyHash, caller) ==
  /\ last' = [op |-> "setOracle", result |-> setOracleResult(caller)]
  /\ oracleKeyHash' = newKeyHash
  /\ UNCHANGED <<blockNumber, usedNonces, verifiedBurns, burnBlockHeights,
                 mintedInscriptions, collectionIdHash, burnAddress, maxSupply, nextTokenId,
                 totalSupply, ownerOf, tokenURI, claimant>>
\* setOracle starting a new nonce space with the new key
setOracle_resetsNonces(newKeyHash, caller) ==
  LET result == setOracleResult(caller)
  IN  /\ last' = [op |-> "setOracle", result |-> result]
      /\ IF result = "ok"
         THEN oracleKeyHash' = newKeyHash /\ usedNonces' = [n \in Nonces |-> 0]
         ELSE UNCHANGED <<oracleKeyHash, usedNonces>>
      /\ UNCHANGED <<blockNumber, verifiedBurns, burnBlockHeights,
                     mintedInscriptions, collectionIdHash, burnAddress, maxSupply, nextTokenId,
                     totalSupply, ownerOf, tokenURI, claimant>>

setOracle(newKeyHash, caller) ==
  LET result == setOracleResult(caller)
  IN  /\ last' = [op |-> "setOracle", result |-> result]
      /\ IF result = "ok"
         THEN oracleKeyHash' = newKeyHash
         ELSE UNCHANGED oracleKeyHash
      /\ UNCHANGED <<blockNumber, usedNonces, verifiedBurns, burnBlockHeights,
                     mintedInscriptions, collectionIdHash, burnAddress, maxSupply, nextTokenId,
                     totalSupply, ownerOf, tokenURI, claimant>>

\* ---------------------------------------------------------- query methods
\* the two booleans getBurnStatus writes to its response
getBurnStatusReturns(inscriptionId) ==
  LET key == KeyOf[inscriptionId]
      verified == verifiedBurns[key] # U64Zero
      minted == mintedInscriptions[key] # 0
  IN  <<verified, minted>>

getBurnStatus(inscriptionId) ==
  /\ last' = [op |-> "getBurnStatus", result |-> "ok"]
  /\ UNCHANGED <<blockNumber, storage, claimant>>

\* the string getBurnAddress writes to its response
getBurnAddressReturns == burnAddress

getBurnAddress ==
  /\ last' = [op |-> "getBurnAddress", result |-> "ok"]
  /\ UNCHANGED <<blockNumber, storage, claimant>>

\* the value getCollectionId writes to its response
getCollectionIdReturns == collectionIdHash

getCollectionId ==
  /\ last' = [op |-> "getCollectionId", result |-> "ok"]
  /\ UNCHANGED <<blockNumber, storage, claimant>>

\* ------------------------------------------------- buildAttestationHash
\* the identifiers a message is built for: the test identifiers and one of
\* another length
MessageIds == InscriptionIds \cup {"7c1e5a9b03f2d486i10"}

\* the seven fields of a message: Blockchain.contract.address and the five
\* arguments of buildAttestationHash
MessageFields == Contracts \X MessageIds \X Addresses \X Deadlines \X Nonces \X CollectionIds

\* no message has been built
HashingInit == msgFields = <<>> /\ msg = <<>>

\* buildAttestationHash, up to the digest: msg.getBuffer()
buildAttestationMessage(t) ==
  /\ msgFields' = t
  /\ msg' = attestationMessage(t[1], t[2], t[3], t[4], t[5], t[6])
  /\ UNCHANGED <<vars, registries>>

BuildAttestationHashNext == \E t \in MessageFields : buildAttestationMessage(t)

\* ------------------------------------------------------------- registries
\* A u256 of the registries is a tuple of 32 bytes, least significant first.
U256Zero == [i \in 1..32 |-> 0]
U256One == [i \in 1..32 |-> IF i = 1 THEN 1 ELSE 0]

\* u256.fromUint8ArrayBE: the first byte of the array is the most significant
fromUint8ArrayBE(bytes) == [i \in 1..32 |-> bytes[33 - i]]

\* u256.toBytes(bigEndian)
toBytes(v, be) == IF be THEN [i \in 1..32 |-> v[33 - i]] ELSE v

\* the addresses registered as vaults or collections, the zero address among them
RegistryAddresses == {"vault", "otherVault", "zero"}

\* new Address(bytes), for the addresses of the test data
AddressNames == Addresses \cup RegistryAddresses
AddressFromBytes(bytes) == CHOOSE a \in AddressNames : AddressBytes(a) = bytes

\* CollectionRegistry and OP721Registry after deployment: nothing registered
RegistriesInit ==
  /\ collectionCount = 0
  /\ collectionVaults = [id \in CollectionIds |-> U256Zero]
  /\ collectionIndex = [j \in 0..(MaxRegistrations - 1) |-> 0]
  /\ count = 0
  /\ byIndex = [j \in 0..(MaxRegistrations - 1) |-> U256Zero]
  /\ registered = [a \in RegistryAddresses |-> 0]
  /\ deployer = [a \in RegistryAddresses |-> U256Zero]

\* a vault nobody calls: how the registry specifications keep the vault
VaultIdle ==
  UNCHANGED <<blockNumber, storage, claimant, hashing>>
\* registerCollection without its onlyDeployer check
registerCollectionResult_anyCaller(collectionIdHash_, vaultAddress, caller) ==
  IF collectionVaults[collectionIdHash_] # U256Zero THEN "AlreadyRegistered" ELSE "ok"

\* ---- CollectionRegistry
registerCollectionResult(collectionIdHash_, vaultAddress, caller) ==
  IF caller # Deployer THEN "Unauthorized"
  ELSE IF collectionVaults[collectionIdHash_] # U256Zero THEN "AlreadyRegistered"
  ELSE "ok"

registerCollection(collectionIdHash_, vaultAddress, caller) ==
  LET result == registerCollectionResult(collectionIdHash_, vaultAddress, caller)
      addrU256 == fromUint8ArrayBE(AddressBytes(vaultAddress))
      index == collectionCount
  IN  /\ result = "ok" => collectionCount < MaxRegistrations
      /\ last' = [op |-> "registerCollection", result |-> result]
      /\ IF result = "ok"
         THEN /\ collectionVaults' = [collectionVaults EXCEPT ![collectionIdHash_] = addrU256]
              /\ collectionIndex' = [collectionIndex EXCEPT ![index] = collectionIdHash_]
              /\ collectionCount' = index + 1
         ELSE UNCHANGED <<collectionCount, collectionVaults, collectionIndex>>
      /\ UNCHANGED <<count, byIndex, registered, deployer>>
      /\ VaultIdle

updateCollectionResult(collectionIdHash_, newVaultAddress, caller) ==
  IF caller # Deployer THEN "Unauthorized"
  ELSE IF collectionVaults[collectionIdHash_] = U256Zero THEN "NotRegistered"
  ELSE "ok"

updateCollection(collectionIdHash_, newVaultAddress, caller) ==
  LET result == updateCollectionResult(collectionIdHash_, newVaultAddress, caller)
      addrU256 == fromUint8ArrayBE(AddressBytes(newVaultAddress))
  IN  /\ last' = [op |-> "updateCollection", result |-> result]
      /\ IF result = "ok"
         THEN collectionVaults' = [collectionVaults EXCEPT ![collectionIdHash_] = addrU256]
         ELSE UNCHANGED collectionVaults
      /\ UNCHANGED <<collectionCount, collectionIndex, count, byIndex, registered, deployer>>
      /\ VaultIdle

getVaultResult(collectionIdHash_) ==
  IF collectionVaults[collectionIdHash_] = U256Zero THEN "NotFound" ELSE "ok"

\* the address getVault writes to its response
getVaultReturns(collectionIdHash_) ==
  AddressFromBytes(toBytes(collectionVaults[collectionIdHash_], TRUE))

getVault(collectionIdHash_) ==
  /\ last' = [op |-> "getVault", result |-> getVaultResult(collectionIdHash_)]
  /\ UNCHANGED registries
  /\ VaultIdle

getCollectionCountReturns == collectionCount

getCollectionCount ==
  /\ last' = [op |-> "getCollectionCount", result |-> "ok"]
  /\ UNCHANGED registries
  /\ VaultIdle

getCollectionAtIndexResult(index) ==
  IF index >= collectionCount THEN "OutOfBounds" ELSE "ok"

getCollectionAtIndexReturns(index) == collectionIndex[index]

getCollectionAtIndex(index) ==
  /\ last' = [op |-> "getCollectionAtIndex", result |-> getCollectionAtIndexResult(index)]
  /\ UNCHANGED registries
  /\ VaultIdle

CollectionRegistryNext ==
  \/ \E id \in CollectionIds, v \in RegistryAddresses, caller \in Addresses :
       registerCollection(id, v, caller)
  \/ \E id \in CollectionIds, v \in RegistryAddresses, caller \in Addresses :
       updateCollection(id, v, caller)
  \/ \E id \in CollectionIds : getVault(id)
  \/ getCollectionCount
  \/ \E index \in 0..MaxRegistrations : getCollectionAtIndex(index)

\* the three contracts after deployment, the vault with no collection bound
\* and a supply of one; a specification of one contract leaves the others idle
DeploymentInit ==
  Init /\ collectionIdHash = 0 /\ maxSupply = 1 /\ RegistriesInit /\ HashingInit

CollectionRegistrySpec == DeploymentInit /\ [][CollectionRegistryNext]_allvars

\* ---- OP721Registry
\* OP721Registry.hashAddress: sha256 of the address, the key of _registered
\* and _deployer; sha256 is injective, so the address stands for its hash
registryKey(addr) == addr
\* register without its already-registered check
registerResult_withoutDedup(collectionAddress, sender) == "ok"

registerResult(collectionAddress, sender) ==
  IF registered[registryKey(collectionAddress)] # 0 THEN "AlreadyRegistered" ELSE "ok"

\* the index register writes to its response
registerReturns(collectionAddress, sender) == count

register(collectionAddress, sender) ==
  LET addrKey == registryKey(collectionAddress)
      result == registerResult(collectionAddress, sender)
      index == count
  IN  /\ result = "ok" => count < MaxRegistrations
      /\ last' = [op |-> "register", result |-> result]
      /\ IF result = "ok"
         THEN /\ byIndex' = [byIndex EXCEPT ![index] = fromUint8ArrayBE(AddressBytes(collectionAddress))]
              /\ registered' = [registered EXCEPT ![addrKey] = 1]
              /\ deployer' = [deployer EXCEPT ![addrKey] = fromUint8ArrayBE(AddressBytes(sender))]
              /\ count' = index + 1
         ELSE UNCHANGED <<count, byIndex, registered, deployer>>
      /\ UNCHANGED <<collectionCount, collectionVaults, collectionIndex>>
      /\ VaultIdle

getCountReturns == count

getCount ==
  /\ last' = [op |-> "getCount", result |-> "ok"]
  /\ UNCHANGED registries
  /\ VaultIdle

getCollectionAtResult(index) == IF index >= count THEN "OutOfBounds" ELSE "ok"

\* the address getCollectionAt writes to its response
getCollectionAtReturns(index) == AddressFromBytes(toBytes(byIndex[index], TRUE))

getCollectionAt(index) ==
  /\ last' = [op |-> "getCollectionAt", result |-> getCollectionAtResult(index)]
  /\ UNCHANGED registries
  /\ VaultIdle

isRegisteredReturns(collectionAddress) == registered[registryKey(collectionAddress)] # 0

isRegistered(collectionAddress) ==
  /\ last' = [op |-> "isRegistered", result |-> "ok"]
  /\ UNCHANGED registries
  /\ VaultIdle

getRegistrantResult(collectionAddress) ==
  IF deployer[registryKey(collectionAddress)] = U256Zero THEN "NotRegistered" ELSE "ok"

getRegistrant(collectionAddress) ==
  /\ last' = [op |-> "getRegistrant", result |-> getRegistrantResult(collectionAddress)]
  /\ UNCHANGED registries
  /\ VaultIdle

OP721RegistryNext ==
  \/ \E a \in RegistryAddresses, sender \in Addresses : register(a, sender)
  \/ getCount
  \/ \E index \in 0..MaxRegistrations : getCollectionAt(index)
  \/ \E a \in RegistryAddresses : isRegistered(a)
  \/ \E a \in RegistryAddresses : getRegistrant(a)

OP721RegistrySpec == DeploymentInit /\ [][OP721RegistryNext]_allvars

\* the vault (and an oracle plugin) building attestation messages
BuildAttestationHashSpec ==
  DeploymentInit /\ [][BuildAttestationHashNext]_allvars

\* ------------------------------------------------------------ environment
\* a new block: Blockchain.block.number advances by one
newBlock ==
  /\ blockNumber < MaxHeight
  /\ blockNumber' = blockNumber + 1
  /\ UNCHANGED <<storage, claimant, last, registries, hashing>>

\* Every calldata of recordBurnWithAttestation over the test data:
\* <<inscriptionId, burner, deadline, nonce, collectionIdHash, oraclePublicKey, oracleSig>>
RecordInputs ==
  UNION {{<<i, b, d, n, c, pk, sig>> : sig \in Signatures(pk, i, b, d, n, c)} :
           <<i, b, d, n, c, pk>> \in InscriptionIds \X Burners \X Deadlines \X Nonces
                                      \X CollectionIds \X PublicKeys}

recordResultOf(x) == recordResult(x[1], x[2], x[3], x[4], x[5], x[6], x[7])

\* Values for the fields a reverting call never gets to read
AnyInscriptionId == CHOOSE i \in InscriptionIds : TRUE
AnyBurner == CHOOSE b \in Burners : TRUE
AnyNonce == CHOOSE n \in Nonces : TRUE
AnyCollectionId == CHOOSE c \in CollectionIds : TRUE
AnyPublicKey == CHOOSE pk \in PublicKeys : TRUE

\* The calls of recordBurnWithAttestation that are tried in the current
\* state.  A call that reverts at one check takes the same step whatever the
\* fields read only by later checks hold, so those fields are drawn only
\* once a call reaches them; RecordCallsCoverInputs states that the step of
\* every calldata of RecordInputs is taken by one of these.
CallsWithKey(i, d, n, c, pk) ==
  LET x == <<i, AnyBurner, d, n, c, pk, GarbageSig>> IN
  IF recordResultOf(x) = "UnknownOracleKey" THEN {x}
  ELSE UNION {{<<i, b, d, n, c, pk, sig>> : sig \in Signatures(pk, i, b, d, n, c)} :
                b \in Burners}

CallsWithCollection(i, d, n, c) ==
  LET x == <<i, AnyBurner, d, n, c, AnyPublicKey, GarbageSig>> IN
  IF recordResultOf(x) = "CollectionMismatch" THEN {x}
  ELSE UNION {CallsWithKey(i, d, n, c, pk) : pk \in PublicKeys}

CallsWithId(i, d, n) ==
  LET x == <<i, AnyBurner, d, n, AnyCollectionId, AnyPublicKey, GarbageSig>> IN
  IF recordResultOf(x) \in {"AlreadyRecorded", "AlreadyMinted"} THEN {x}
  ELSE UNION {CallsWithCollection(i, d, n, c) : c \in CollectionIds}

CallsWithNonce(d, n) ==
  LET x == <<AnyInscriptionId, AnyBurner, d, n, AnyCollectionId, AnyPublicKey, GarbageSig>> IN
  IF recordResultOf(x) = "NonceReused" THEN {x}
  ELSE UNION {CallsWithId(i, d, n) : i \in InscriptionIds}

CallsWithDeadline(d) ==
  LET x == <<AnyInscriptionId, AnyBurner, d, AnyNonce, AnyCollectionId, AnyPublicKey, GarbageSig>> IN
  IF recordResultOf(x) = "Expired" THEN {x}
  ELSE UNION {CallsWithNonce(d, n) : n \in Nonces}

RecordCalls == UNION {CallsWithDeadline(d) : d \in Deadlines}

RecordCallsCoverInputs ==
  LET calls == RecordCalls
      reverts == {recordResultOf(y) : y \in calls}
  IN  \A x \in RecordInputs :
        IF recordResultOf(x) = "ok" THEN x \in calls ELSE recordResultOf(x) \in reverts

\* the addresses that submit attestations: a burner and another address
Submitters == {"alice", "mallory"}

RecordCall ==
  /\ \E x \in RecordCalls, sender \in Submitters :
       recordBurnWithAttestationBy(sender, x[1], x[2], x[3], x[4], x[5], x[6], x[7])
  /\ UNCHANGED <<registries, hashing>>

MintCall ==
  /\ \E i \in InscriptionIds, caller \in Addresses : mint(i, caller)
  /\ UNCHANGED <<registries, hashing>>

SetOracleCall ==
  /\ \E h \in KeyHashes, caller \in Addresses : setOracle(h, caller)
  /\ UNCHANGED <<registries, hashing>>

GetBurnStatusCall ==
  /\ \E i \in InscriptionIds : getBurnStatus(i)
  /\ UNCHANGED <<registries, hashing>>

GetBurnAddressCall == getBurnAddress /\ UNCHANGED <<registries, hashing>>

GetCollectionIdCall == getCollectionId /\ UNCHANGED <<registries, hashing>>

Next ==
  \/ RecordCall
  \/ MintCall
  \/ SetOracleCall
  \/ GetBurnStatusCall
  \/ GetBurnAddressCall
  \/ GetCollectionIdCall
  \/ newBlock

\* the vault, beside two registries nobody calls
SpecInit == Init /\ RegistriesInit /\ HashingInit

Spec == SpecInit /\ [][Next]_allvars

\* ================================================================ properties
\* the tokens whose URI is the claim identifier i
tokensOf(i) == {t \in TokenIds : tokenURI[t] = i}

\* the calldata carrying the oracle's signature of exactly its own fields
SignedInputs ==
  {x \in RecordInputs : x[7] = OracleSign(x[6], ContractAddress, x[1], x[2], x[3], x[4], x[5])}

UnsignedInputs == RecordInputs \ SignedInputs

\* the calldata that are a genuine attestation with one field changed by the
\* submitter: the signature is the oracle's, under the submitted key and for
\* this vault, of other fields than the ones submitted
TamperedInputs ==
  {x \in UnsignedInputs :
     \E y \in SignedInputs : y[7] = x[7] /\ y[6] = x[6]}

InputsWithNonce == [n \in Nonces |-> {x \in RecordInputs : x[4] = n}] @@ <<>>
InputsWithId == [i \in InscriptionIds |-> {x \in RecordInputs : x[1] = i}] @@ <<>>

\* no check before the signature check fails for calldata x
reachesSignatureCheck(x) ==
  /\ blockNumber <= x[3]
  /\ usedNonces[x[4]] = 0
  /\ verifiedBurns[KeyOf[x[1]]] = U64Zero
  /\ mintedInscriptions[KeyOf[x[1]]] = 0
  /\ collectionIdHash # 0 => x[5] = collectionIdHash
  /\ KeyHash(x[6]) = oracleKeyHash

\* C1: each claim identifier has at most one token created for it.  Once a
\* token exists for an identifier, mint of that identifier is rejected for
\* every caller, and the token counter has advanced exactly once per
\* identifier that has a token.
C1_OneTokenPerClaim ==
  /\ \A i \in InscriptionIds :
       /\ Cardinality(tokensOf(i)) <= 1
       /\ tokensOf(i) # {} => \A caller \in Addresses : mintResult(i, caller) # "ok"
  /\ nextTokenId = 1 + Cardinality({i \in InscriptionIds : tokensOf(i) # {}})
  /\ totalSupply = nextTokenId - 1

\* a token exists and a later mint of a minted claim has just been refused
C1_SecondMintTried ==
  /\ \E i \in InscriptionIds : tokensOf(i) # {}
  /\ last = [op |-> "mint", result |-> "AlreadyMinted"]

\* C2: a used nonce is never accepted again, whatever the rest of the
\* calldata; no step clears a used nonce; a nonce becomes used only in a
\* step that is an accepted recordBurnWithAttestation.
C2_NonceAcceptedOnce ==
  /\ [](\A n \in Nonces : usedNonces[n] # 0 =>
          \A x \in InputsWithNonce[n] : recordResultOf(x) # "ok")
  /\ [][\A n \in Nonces :
          /\ usedNonces[n] # 0 => usedNonces'[n] = usedNonces[n]
          /\ usedNonces'[n] # usedNonces[n] =>
               last' = [op |-> "recordBurnWithAttestation", result |-> "ok"]]_vars

\* every nonce is used, and a later call carrying a used nonce was refused
C2_UsedNonceResubmitted ==
  /\ \A n \in Nonces : usedNonces[n] # 0
  /\ last = [op |-> "recordBurnWithAttestation", result |-> "NonceReused"]

\* C3: a step that is a rejected recordBurnWithAttestation leaves the used
\* nonces and every burn record as they were; so in any state an attestation
\* the oracle signed is accepted as soon as no check fails: its deadline has
\* not passed, its nonce and its key are unused, its collection matches and
\* its public key hashes to the stored oracle key hash.
C3_RejectedRecordChangesNothing ==
  /\ [][last'.op = "recordBurnWithAttestation" /\ last'.result # "ok" =>
          UNCHANGED <<usedNonces, verifiedBurns, burnBlockHeights, mintedInscriptions>>]_vars
  /\ [](\A x \in SignedInputs : reachesSignatureCheck(x) => recordResultOf(x) = "ok")

\* a call has just been rejected for its key, nothing is consumed, and an
\* attestation under that key is still within its deadline
C3_RejectedThenAcceptable ==
  /\ last = [op |-> "recordBurnWithAttestation", result |-> "UnknownOracleKey"]
  /\ \A n \in Nonces : usedNonces[n] = 0
  /\ \A k \in Keys : verifiedBurns[k] = U64Zero
  /\ blockNumber <= MaxDeadline

\* C4 (as amended): a call is accepted only if its signature is the oracle's
\* signature, under the submitted key and for this vault, of exactly the
\* submitted fields, and the submitted key hashes to the stored oracle key
\* hash; calldata with any other signature is rejected, with
\* InvalidSignature when no earlier check fails.  Each recorded burn holds
\* the hashAddress of the burner named in the accepted attestation, and a
\* burn record is written only by an accepted recordBurnWithAttestation.
C4_AcceptedOnlyAsSigned ==
  /\ [](\A x \in SignedInputs :
          recordResultOf(x) = "ok" => KeyHash(x[6]) = oracleKeyHash)
  /\ [](\A x \in UnsignedInputs :
          /\ recordResultOf(x) # "ok"
          /\ reachesSignatureCheck(x) => recordResultOf(x) = "InvalidSignature")
  /\ [](\A k \in Keys : verifiedBurns[k] # U64Zero =>
          claimant[k] \in Burners /\ verifiedBurns[k] = FingerprintOf[claimant[k]])
  /\ [][\A k \in Keys : verifiedBurns'[k] # verifiedBurns[k] =>
          last' = [op |-> "recordBurnWithAttestation", result |-> "ok"]]_vars

\* a burn is recorded and a call has just been refused for its signature
C4_RecordedAndForgeryRefused ==
  /\ \E k \in Keys : verifiedBurns[k] # U64Zero
  /\ last = [op |-> "recordBurnWithAttestation", result |-> "InvalidSignature"]

\* C4 as stated: a genuine attestation with a field changed is always
\* rejected with InvalidSignature
C4_TamperedIsInvalidSignature ==
  \A x \in TamperedInputs : recordResultOf(x) = "InvalidSignature"

\* C5 as stated, in its weaker half: for a recorded burn, mint by an address
\* other than the burner named in the accepted attestation does not succeed
\* (the claim has it fail with WrongClaimant)
C5_OnlyNamedClaimantMints ==
  \A i \in InscriptionIds, caller \in Addresses :
    verifiedBurns[KeyOf[i]] # U64Zero /\ caller # claimant[KeyOf[i]]
      => mintResult(i, caller) # "ok"

\* C6 as stated: a minted claim has a recorded fingerprint, and the
\* fingerprint, the recorded height and the minted marker of a claim, once
\* set, are the same after every step.
C6_RecordFieldsNeverChange ==
  /\ [](\A k \in Keys : mintedInscriptions[k] # 0 => verifiedBurns[k] # U64Zero)
  /\ [][\A k \in Keys :
          /\ verifiedBurns[k] # U64Zero => verifiedBurns'[k] = verifiedBurns[k]
          /\ burnBlockHeights[k] # 0 => burnBlockHeights'[k] = burnBlockHeights[k]
          /\ mintedInscriptions[k] # 0 => mintedInscriptions'[k] = mintedInscriptions[k]]_vars

\* C7 as stated, read in its favour: once a burn has been accepted for an
\* identifier, a genuine attestation for that identifier that passes every
\* other check (deadline not passed, nonce unused, collection and key
\* matching) yields AlreadyRecorded
C7_ReplayIsAlreadyRecorded ==
  \A x \in SignedInputs :
    (/\ claimant[KeyOf[x[1]]] # "none"
     /\ blockNumber <= x[3]
     /\ usedNonces[x[4]] = 0
     /\ collectionIdHash # 0 => x[5] = collectionIdHash
     /\ KeyHash(x[6]) = oracleKeyHash)
    => recordResultOf(x) = "AlreadyRecorded"

\* C8 (as amended): calldata carrying a used nonce is rejected whatever its
\* other fields: with Expired past its deadline, with NonceReused otherwise.
C8_UsedNonceRejected ==
  \A n \in Nonces : usedNonces[n] # 0 =>
    \A x \in InputsWithNonce[n] :
      recordResultOf(x) = IF blockNumber > x[3] THEN "Expired" ELSE "NonceReused"

\* one nonce is used, another is not, and a call has been refused for its nonce
C8_NonceReusedSeen ==
  /\ \E n \in Nonces : usedNonces[n] # 0
  /\ \E n \in Nonces : usedNonces[n] = 0
  /\ last = [op |-> "recordBurnWithAttestation", result |-> "NonceReused"]

\* C8 as stated: calldata carrying a used nonce yields NonceReused at every
\* height and for every deadline
C8_UsedNonceIsNonceReused ==
  \A n \in Nonces : usedNonces[n] # 0 =>
    \A x \in InputsWithNonce[n] : recordResultOf(x) = "NonceReused"

\* C9 (as amended): mint of a minted claim is rejected for every caller:
\* with AlreadyMinted when the caller's hashAddress is the recorded
\* fingerprint, with WrongClaimant otherwise.
C9_SecondMintRejected ==
  \A i \in InscriptionIds, caller \in Addresses :
    mintedInscriptions[KeyOf[i]] # 0 =>
      mintResult(i, caller) = IF FingerprintOf[caller] = verifiedBurns[KeyOf[i]]
                              THEN "AlreadyMinted" ELSE "WrongClaimant"

\* every claim is minted and a mint by another address has just been refused
C9_MintedThenWrongCaller ==
  /\ \A k \in Keys : mintedInscriptions[k] # 0
  /\ last = [op |-> "mint", result |-> "WrongClaimant"]

\* C9 as stated: mint of a minted claim yields AlreadyMinted
C9_SecondMintIsAlreadyMinted ==
  \A i \in InscriptionIds, caller \in Addresses :
    mintedInscriptions[KeyOf[i]] # 0 => mintResult(i, caller) = "AlreadyMinted"

C11_FirstMintOfSupplyOneSucceeds ==
  \A i \in InscriptionIds :
    LET key == KeyOf[i] IN
    (/\ maxSupply = 1 /\ collectionIdHash = 0
     /\ verifiedBurns[key] # U64Zero
     /\ nextTokenId = 1
     /\ blockNumber = burnBlockHeights[key] + 1)
    => mintResult(i, claimant[key]) = "ok"

\* every step before a mint reverts with SupplyExhausted passes
mintReachesSupplyCheck(i, caller) ==
  /\ verifiedBurns[KeyOf[i]] # U64Zero
  /\ verifiedBurns[KeyOf[i]] = FingerprintOf[caller]
  /\ blockNumber > burnBlockHeights[KeyOf[i]]
  /\ mintedInscriptions[KeyOf[i]] = 0

\* C12 (as amended): the tokens in existence never outnumber maxSupply, every
\* token id issued is below maxSupply, and while nextTokenId >= maxSupply
\* every mint is rejected, with SupplyExhausted when no earlier check fails.
C12_SupplyNeverExceeded ==
  /\ totalSupply <= maxSupply
  /\ Cardinality({t \in TokenIds : ownerOf[t] # "none"}) <= maxSupply
  /\ \A t \in TokenIds : ownerOf[t] # "none" => t < maxSupply
  /\ nextTokenId >= maxSupply =>
       \A i \in InscriptionIds, caller \in Addresses :
         /\ mintResult(i, caller) # "ok"
         /\ mintReachesSupplyCheck(i, caller) => mintResult(i, caller) = "SupplyExhausted"

\* a token exists, the supply is used up and a mint was refused for it
C12_SupplyExhaustedAfterMint ==
  /\ totalSupply >= 1
  /\ nextTokenId = maxSupply
  /\ last = [op |-> "mint", result |-> "SupplyExhausted"]

\* C12 as stated: while nextTokenId >= maxSupply, mint yields SupplyExhausted
C12_ExhaustedIsSupplyExhausted ==
  nextTokenId >= maxSupply =>
    \A i \in InscriptionIds, caller \in Addresses :
      mintResult(i, caller) = "SupplyExhausted"

\* no check before the key check fails for calldata x
reachesKeyCheck(x) ==
  /\ blockNumber <= x[3]
  /\ usedNonces[x[4]] = 0
  /\ verifiedBurns[KeyOf[x[1]]] = U64Zero
  /\ mintedInscriptions[KeyOf[x[1]]] = 0
  /\ collectionIdHash # 0 => x[5] = collectionIdHash

\* C13 (as amended): an attestation whose public key does not hash to the
\* stored oracle key hash is rejected although its signature verifies under
\* that key, with UnknownOracleKey when no earlier check fails; this holds
\* from the state a successful setOracle produces: no attestation under the
\* key it replaced is accepted there.
C13_OldKeyRejected ==
  /\ [](\A x \in SignedInputs : KeyHash(x[6]) # oracleKeyHash =>
          /\ recordResultOf(x) # "ok"
          /\ reachesKeyCheck(x) => recordResultOf(x) = "UnknownOracleKey")
  /\ [][last' = [op |-> "setOracle", result |-> "ok"] /\ oracleKeyHash' # oracleKeyHash =>
          \A x \in SignedInputs :
            KeyHash(x[6]) = oracleKeyHash => (recordResultOf(x) # "ok")']_vars

\* the key was rotated from K1 to K2 and a call under K1 has been refused
C13_RotatedAndOldKeyRefused ==
  /\ oracleKeyHash = KeyHash("K2")
  /\ last = [op |-> "recordBurnWithAttestation", result |-> "UnknownOracleKey"]

\* C13 as stated: once the key is rotated away from K1, every attestation
\* carrying K1 and its signature yields UnknownOracleKey
C13_OldKeyIsUnknownOracleKey ==
  oracleKeyHash # KeyHash("K1") =>
    \A x \in SignedInputs : x[6] = "K1" => recordResultOf(x) = "UnknownOracleKey"

\* C14: setOracle succeeds exactly for the deployer.  A step that is
\* setOracle by another address reports Unauthorized and leaves the oracle
\* key hash (and all storage) as it was; a step that is setOracle by the
\* deployer leaves the supplied value as the oracle key hash, whatever the
\* value (the current one and a value no key hashes to included), and that
\* value decides the key check of the next state.
C14_OnlyDeployerRotates ==
  /\ [](\A caller \in Addresses : setOracleResult(caller) = "ok" <=> caller = Deployer)
  /\ [][\A h \in KeyHashes, caller \in Addresses : setOracle(h, caller) =>
          IF caller = Deployer
          THEN /\ oracleKeyHash' = h
               /\ last'.result = "ok"
               /\ \A x \in SignedInputs :
                    (reachesKeyCheck(x) /\ KeyHash(x[6]) # h
                       => recordResultOf(x) = "UnknownOracleKey")'
          ELSE /\ last'.result = "Unauthorized"
               /\ UNCHANGED <<storage, claimant>>]_vars

\* the deployer has set a value no key hashes to, and a later setOracle by
\* another address was refused
C14_SetToNoKeyThenUnauthorized ==
  /\ oracleKeyHash = NoKeyHash
  /\ last = [op |-> "setOracle", result |-> "Unauthorized"]

\* no check before the collection check fails for calldata x
reachesCollectionCheck(x) ==
  /\ blockNumber <= x[3]
  /\ usedNonces[x[4]] = 0
  /\ verifiedBurns[KeyOf[x[1]]] = U64Zero
  /\ mintedInscriptions[KeyOf[x[1]]] = 0

\* C15 (as amended): calldata whose collection value differs from a non-zero
\* stored collection id is never accepted, and is rejected with
\* CollectionMismatch when no earlier check fails, whatever its public key
\* and signature (an unknown key and a forged signature included);
\* CollectionMismatch is the result of no other calldata, so with a stored
\* collection id of zero it is never the result.
C15_CollectionCheck ==
  \A x \in RecordInputs :
    /\ (collectionIdHash # 0 /\ x[5] # collectionIdHash) =>
         /\ recordResultOf(x) # "ok"
         /\ reachesCollectionCheck(x) => recordResultOf(x) = "CollectionMismatch"
    /\ recordResultOf(x) = "CollectionMismatch" =>
         collectionIdHash # 0 /\ x[5] # collectionIdHash

\* a vault bound to a collection has refused a call for its collection
\* value and has accepted another
C15_MismatchRefused ==
  /\ collectionIdHash # 0
  /\ \E k \in Keys : verifiedBurns[k] # U64Zero
  /\ last = [op |-> "recordBurnWithAttestation", result |-> "CollectionMismatch"]

\* C15 as stated: with a non-zero stored collection id, calldata carrying any
\* other collection value yields CollectionMismatch
C15_MismatchIsCollectionMismatch ==
  collectionIdHash # 0 =>
    \A x \in RecordInputs :
      x[5] # collectionIdHash => recordResultOf(x) = "CollectionMismatch"

\* C16: the result of recordBurnWithAttestation is Expired exactly when the
\* current height is greater than the deadline submitted; an attestation the
\* oracle signed that fails no other check is accepted at every height up to
\* and including its deadline.
C16_ExpiredAfterDeadline ==
  /\ \A x \in RecordInputs : recordResultOf(x) = "Expired" <=> blockNumber > x[3]
  /\ \A x \in SignedInputs :
       (/\ blockNumber = x[3]
        /\ usedNonces[x[4]] = 0
        /\ verifiedBurns[KeyOf[x[1]]] = U64Zero
        /\ mintedInscriptions[KeyOf[x[1]]] = 0
        /\ collectionIdHash # 0 => x[5] = collectionIdHash
        /\ KeyHash(x[6]) = oracleKeyHash)
       => recordResultOf(x) = "ok"

\* an attestation was accepted at the last height a deadline allows, and one
\* height later a call has been refused as expired
C16_AcceptedAtDeadlineThenExpired ==
  /\ blockNumber = MaxDeadline + 1
  /\ \E k \in Keys : burnBlockHeights[k] = MaxDeadline
  /\ last = [op |-> "recordBurnWithAttestation", result |-> "Expired"]

\* C17 as stated: a step that is an accepted recordBurnWithAttestation leaves
\* a state in which no attestation for the same identifier is accepted, be
\* it the same attestation again or one with another nonce; so of two
\* attestations for one identifier, in either order, one is accepted
C17_OneAcceptedPerIdentifier ==
  [][\A x \in SignedInputs :
       (/\ last' = [op |-> "recordBurnWithAttestation", result |-> "ok"]
        /\ recordBurnWithAttestation(x[1], x[2], x[3], x[4], x[5], x[6], x[7]))
       => \A y \in SignedInputs : y[1] = x[1] => (recordResultOf(y) # "ok")']_vars

\* C18: only calldata carrying the oracle's signature of its own fields is
\* accepted, and a step that is an accepted recordBurnWithAttestation marks
\* the nonce submitted, which was unused, stores the hashAddress of the
\* burner submitted and the current height under the key of the identifier
\* submitted, and leaves every other nonce, the records under every other
\* key, the minted markers, the tokens and their counter, the oracle key
\* hash, the collection id and maxSupply as they were.
C18_RecordWritesThreeFields ==
  /\ [](\A x \in UnsignedInputs : recordResultOf(x) # "ok")
  /\ [][\A x \in SignedInputs :
          (/\ last' = [op |-> "recordBurnWithAttestation", result |-> "ok"]
           /\ recordBurnWithAttestation(x[1], x[2], x[3], x[4], x[5], x[6], x[7]))
          => /\ usedNonces[x[4]] = 0
             /\ usedNonces' = [usedNonces EXCEPT ![x[4]] = 1]
             /\ verifiedBurns' = [verifiedBurns EXCEPT ![KeyOf[x[1]]] = FingerprintOf[x[2]]]
             /\ burnBlockHeights' = [burnBlockHeights EXCEPT ![KeyOf[x[1]]] = blockNumber]
             /\ UNCHANGED <<mintedInscriptions, nextTokenId, totalSupply, ownerOf, tokenURI,
                            oracleKeyHash, collectionIdHash, burnAddress, maxSupply, blockNumber>>]_vars

\* a burn has just been recorded at the current height while the burn
\* recorded earlier under another key and a token minted for it are in place
C18_SecondRecordAccepted ==
  /\ last = [op |-> "recordBurnWithAttestation", result |-> "ok"]
  /\ \E k1, k2 \in Keys :
       /\ k1 # k2
       /\ burnBlockHeights[k1] = blockNumber /\ verifiedBurns[k1] # U64Zero
       /\ burnBlockHeights[k2] < blockNumber /\ mintedInscriptions[k2] # 0

\* C19: a step that is a successful mint creates the token whose id is
\* nextTokenId before the step, which did not exist, owned by the caller,
\* returns that id, advances nextTokenId and totalSupply by one and stores
\* tokenId + 1 as the minted marker under the key of the identifier; the
\* other tokens, the fingerprints and heights recorded, the markers under
\* other keys, the nonces, the oracle key hash, the collection id and
\* maxSupply are as they were.
C19_MintCreatesOneToken ==
  [][\A i \in InscriptionIds, caller \in Addresses :
       (mint(i, caller) /\ last'.result = "ok")
       => LET tokenId == nextTokenId IN
          /\ mintReturns(i, caller) = tokenId
          /\ ownerOf[tokenId] = "none"
          /\ ownerOf' = [ownerOf EXCEPT ![tokenId] = caller]
          /\ totalSupply' = totalSupply + 1
          /\ nextTokenId' = tokenId + 1
          /\ mintedInscriptions' = [mintedInscriptions EXCEPT ![KeyOf[i]] = tokenId + 1]
          /\ mintedInscriptions'[KeyOf[i]] # 0
          /\ UNCHANGED <<verifiedBurns, burnBlockHeights, usedNonces, oracleKeyHash,
                         collectionIdHash, burnAddress, maxSupply, blockNumber>>]_vars

\* the second token has just been minted
C19_SecondTokenMinted ==
  /\ last = [op |-> "mint", result |-> "ok"]
  /\ nextTokenId = 3
  /\ \E k \in Keys : mintedInscriptions[k] = 3

\* C20: a step that is a rejected mint reports one of NotRecorded,
\* WrongClaimant, ConfirmationPending, AlreadyMinted and SupplyExhausted and
\* leaves the tokens, their counter, every burn record and the nonces as
\* they were; mint of an identifier under whose key no burn is recorded is
\* NotRecorded for every caller, at every height.
C20_RejectedMintChangesNothing ==
  /\ [][\A i \in InscriptionIds, caller \in Addresses :
          (mint(i, caller) /\ last'.result # "ok")
          => /\ last'.result \in {"NotRecorded", "WrongClaimant", "ConfirmationPending",
                                  "AlreadyMinted", "SupplyExhausted"}
             /\ UNCHANGED <<storage, blockNumber>>]_vars
  /\ [](\A i \in InscriptionIds, caller \in Addresses :
          verifiedBurns[KeyOf[i]] = U64Zero => mintResult(i, caller) = "NotRecorded")

\* a token exists and a mint in the block of its record has been refused
C20_PendingMintRefused ==
  /\ last = [op |-> "mint", result |-> "ConfirmationPending"]
  /\ nextTokenId = 2
  /\ \E k \in Keys : burnBlockHeights[k] = blockNumber /\ mintedInscriptions[k] = 0

\* ---------------------------------------------------------------------- C21
\* the methods that are not setOracle
OtherMethods ==
  {"recordBurnWithAttestation", "mint", "getBurnStatus", "getBurnAddress", "getCollectionId"}

\* C21: no step changes the collection binding; a step that changes the
\* oracle key fingerprint is a setOracle that succeeded; a step after which
\* the last call is a recordBurnWithAttestation, a mint or a query method,
\* accepted or rejected, changes neither.
C21_BindingFixedKeyOnlyBySetOracle ==
  [][/\ collectionIdHash' = collectionIdHash
     /\ oracleKeyHash' # oracleKeyHash => last' = [op |-> "setOracle", result |-> "ok"]
     /\ last'.op \in OtherMethods => UNCHANGED <<oracleKeyHash, collectionIdHash>>]_vars

\* the key has been rotated, and a burn was then recorded, under the new key
\* and for the binding of the deployment
C21_RecordedAfterRotation ==
  /\ oracleKeyHash = KeyHash("K2")
  /\ last = [op |-> "recordBurnWithAttestation", result |-> "ok"]
  /\ \E k \in Keys : verifiedBurns[k] # U64Zero

\* ---------------------------------------------------------------------- C22
\* a token carries an identifier of the key k
mintedUnder(k) == \E i \in InscriptionIds : KeyOf[i] = k /\ tokensOf(i) # {}

\* C22 as stated: a step of getBurnStatus, getBurnAddress or getCollectionId
\* changes nothing; getBurnStatus answers (false, false) for a claim no burn
\* was accepted for, (true, false) for a claim a burn was accepted for and no
\* token minted, (true, true) for a minted claim, and never (false, true).
C22_StatusFollowsTheClaim ==
  /\ [][\A i \in InscriptionIds :
          (getBurnStatus(i) \/ getBurnAddress \/ getCollectionId)
          => UNCHANGED <<storage, blockNumber>>]_vars
  /\ [](\A i \in InscriptionIds :
          LET k == KeyOf[i]
              status == getBurnStatusReturns(i)
          IN  /\ status = <<verifiedBurns[k] # U64Zero, mintedInscriptions[k] # 0>>
              /\ status # <<FALSE, TRUE>>
              /\ claimant[k] = "none" => status = <<FALSE, FALSE>>
              /\ (claimant[k] # "none" /\ ~mintedUnder(k)) => status = <<TRUE, FALSE>>
              /\ mintedUnder(k) => status = <<TRUE, TRUE>>)

\* ---------------------------------------------------------------------- C23
zeros(n) == [i \in 1..n |-> 0]

ReadmeInputs ==
  {x \in RecordInputs : x[7] = ReadmeSign(x[6], ContractAddress, x[1], x[2], x[3], x[4])}

enumeratedCollections == {collectionIndex[j] : j \in 0..(collectionCount - 1)}

\* C25 as stated: registerCollection by the deployer reverts for a collection
\* id hash that was registered, whatever the vault address; no collection id
\* hash is at two indices of the enumeration; getCollectionCount is the
\* number of collection id hashes registered.
C25_NoDuplicateRegistration ==
  /\ \A id \in enumeratedCollections, v \in RegistryAddresses :
       registerCollectionResult(id, v, Deployer) = "AlreadyRegistered"
  /\ \A j1, j2 \in 0..(collectionCount - 1) :
       collectionIndex[j1] = collectionIndex[j2] => j1 = j2
  /\ getCollectionCountReturns = Cardinality(enumeratedCollections)

\* ---------------------------------------------------------------------- C26
\* C26 as stated: after a step that is a successful registerCollection or
\* updateCollection of a collection id hash with a vault address, getVault
\* of that hash returns that address, whatever the address; getVault reverts
\* only for a collection id hash that was never registered.
C26_GetVaultReturnsRegistered ==
  /\ [][\A id \in CollectionIds, v \in RegistryAddresses :
          (/\ last'.result = "ok"
           /\ \/ registerCollection(id, v, Deployer)
              \/ updateCollection(id, v, Deployer))
          => (getVaultResult(id) = "ok" /\ getVaultReturns(id) = v)']_allvars
  /\ [](\A id \in CollectionIds :
          getVaultResult(id) = "NotFound" => id \notin enumeratedCollections)

\* ---------------------------------------------------------------------- C27
\* C27: a step that is a registerCollection or an updateCollection by
\* another address than the deployer is rejected as unauthorized and leaves
\* the count, the vaults and the enumeration as they were; a step that is a
\* successful updateCollection is the deployer's, is for a collection id hash
\* of the enumeration, sets the vault of that hash to the address given and
\* leaves every other vault, the count and the enumeration as they were.
C27_DeployerOnlyWrites ==
  [][\A id \in CollectionIds, v \in RegistryAddresses, caller \in Addresses :
       /\ (/\ caller # Deployer
           /\ registerCollection(id, v, caller) \/ updateCollection(id, v, caller))
          => /\ last'.result = "Unauthorized"
             /\ UNCHANGED <<collectionCount, collectionVaults, collectionIndex>>
       /\ (last'.result = "ok" /\ updateCollection(id, v, caller))
          => /\ caller = Deployer
             /\ id \in enumeratedCollections
             /\ getVaultReturns(id)' = v
             /\ \A other \in CollectionIds \ {id} :
                  collectionVaults'[other] = collectionVaults[other]
             /\ UNCHANGED <<collectionCount, collectionIndex>>]_allvars

\* two collections are registered, and the vault of one has been updated to
\* another address than the vault of the other
C27_VaultUpdated ==
  /\ last = [op |-> "updateCollection", result |-> "ok"]
  /\ collectionCount = 2
  /\ enumeratedCollections = CollectionIds
  /\ getVaultReturns(0) # getVaultReturns(1)
  /\ \A id \in CollectionIds : getVaultResult(id) = "ok"

\* ---------------------------------------------------------------------- C28
\* C28: register succeeds for every sender exactly when the address is not
\* registered; a step that is a successful register returns the count it
\* found, advances the count by one and leaves the address registered and
\* returned by getCollectionAt at the index returned; a rejected register
\* changes nothing; an address registered stays registered and the address
\* at an index stays there; no address is at two indices, the addresses at
\* the indices are the registered ones, and getCollectionAt reverts exactly
\* for the indices that are not below the count.
C28_RegisterOnce ==
  /\ [](/\ \A a \in RegistryAddresses, sender \in Addresses :
             registerResult(a, sender) = IF isRegisteredReturns(a) THEN "AlreadyRegistered"
                                         ELSE "ok"
        /\ \A j1, j2 \in 0..(count - 1) :
             getCollectionAtReturns(j1) = getCollectionAtReturns(j2) => j1 = j2
        /\ \A a \in RegistryAddresses :
             isRegisteredReturns(a) <=> \E j \in 0..(count - 1) : getCollectionAtReturns(j) = a
        /\ \A i \in 0..MaxRegistrations :
             getCollectionAtResult(i) = "OutOfBounds" <=> i >= getCountReturns)
  /\ [][/\ \A a \in RegistryAddresses, sender \in Addresses :
             /\ (last'.result = "ok" /\ register(a, sender))
                => /\ registerReturns(a, sender) = getCountReturns
                   /\ getCountReturns' = getCountReturns + 1
                   /\ isRegisteredReturns(a)'
                   /\ (getCollectionAtResult(count - 1) = "ok")'
                   /\ (getCollectionAtReturns(count - 1) = a)'
             /\ (last'.result # "ok" /\ register(a, sender)) => UNCHANGED registries
        /\ \A a \in RegistryAddresses : isRegisteredReturns(a) => isRegisteredReturns(a)'
        /\ \A j \in 0..(count - 1) :
             getCollectionAtReturns(j)' = getCollectionAtReturns(j)]_allvars

\* every address is registered, the zero address by another sender than the
\* deployer at the index 1
C28_ThreeRegistered ==
  /\ last = [op |-> "register", result |-> "ok"]
  /\ getCountReturns = 3
  /\ getCollectionAtReturns(1) = "zero"
  /\ deployer["zero"] = fromUint8ArrayBE(AddressBytes("mallory"))

\* ---------------------------------------------------------------------- C29
\* the revert reasons of recordBurnWithAttestation, in the order claimed
RecordChecks ==
  <<"Expired", "NonceReused", "AlreadyRecorded", "CollectionMismatch", "UnknownOracleKey",
    "InvalidSignature">>

\* calldata x fails, in the current state, the check at place j of
\* RecordChecks, taken alone
failsRecordCheck(j, x) ==
  CASE j = 1 -> blockNumber > x[3]
    [] j = 2 -> usedNonces[x[4]] # 0
    [] j = 3 -> verifiedBurns[KeyOf[x[1]]] # U64Zero \/ mintedInscriptions[KeyOf[x[1]]] # 0
    [] j = 4 -> collectionIdHash # 0 /\ x[5] # collectionIdHash
    [] j = 5 -> KeyHash(x[6]) # oracleKeyHash
    [] j = 6 -> ~verifyMLDSASignature(x[6], x[7],
                   buildAttestationHash(x[1], x[2], x[3], x[4], x[5]))

failedRecordChecks(x) == {j \in 1..6 : failsRecordCheck(j, x)}

\* C29: recordBurnWithAttestation is accepted exactly when no check fails,
\* and is otherwise rejected with the reason of the first check that fails,
\* in the order deadline, nonce, claim unset, collection, oracle key,
\* signature; so calldata with a key other than the stored one is rejected
\* as UnknownOracleKey when the four checks before pass, whether it carries
\* the signature of that key for its fields or not.
C29_FirstFailingCheck ==
  \A x \in RecordInputs :
    LET result == recordResultOf(x) IN
    IF result = "ok" THEN \A j \in 1..6 : ~failsRecordCheck(j, x)
    ELSE \E j \in 1..6 :
           /\ result = RecordChecks[j]
           /\ failsRecordCheck(j, x)
           /\ \A l \in 1..(j - 1) : ~failsRecordCheck(l, x)

\* a call with a used nonce has been rejected as NonceReused, where genuine
\* calldata fails the nonce check and every check after it but the signature
\* check, and other genuine calldata fails the key check alone
C29_SeveralChecksFail ==
  /\ last = [op |-> "recordBurnWithAttestation", result |-> "NonceReused"]
  /\ \E x \in SignedInputs : failedRecordChecks(x) = {2, 3, 4, 5}
  /\ \E x \in SignedInputs : failedRecordChecks(x) = {5}

\* ---------------------------------------------------------------------- C30
\* the revert reasons of mint, in the order claimed
MintChecks ==
  <<"NotRecorded", "WrongClaimant", "ConfirmationPending", "AlreadyMinted", "SupplyExhausted">>

\* mint(i, caller) fails, in the current state, the check at place j of
\* MintChecks, taken alone
failsMintCheck(j, i, caller) ==
  CASE j = 1 -> verifiedBurns[KeyOf[i]] = U64Zero
    [] j = 2 -> verifiedBurns[KeyOf[i]] # FingerprintOf[caller]
    [] j = 3 -> blockNumber <= burnBlockHeights[KeyOf[i]]
    [] j = 4 -> mintedInscriptions[KeyOf[i]] # 0
    [] j = 5 -> nextTokenId >= maxSupply

\* C30 as stated: mint succeeds exactly when no check fails and is otherwise
\* rejected with the reason of the first check that fails, in the order
\* NotRecorded, WrongClaimant, ConfirmationPending, AlreadyMinted,
\* SupplyExhausted; for a minted claim, the claimant named in the accepted
\* attestation gets AlreadyMinted and every other caller WrongClaimant; for a
\* claim recorded at the current height and not minted, the claimant gets
\* ConfirmationPending; all of it whatever the supply left.
C30_FirstFailingMintCheck ==
  /\ \A i \in InscriptionIds, caller \in Addresses :
       LET result == mintResult(i, caller) IN
       IF result = "ok" THEN \A j \in 1..5 : ~failsMintCheck(j, i, caller)
       ELSE \E j \in 1..5 :
              /\ result = MintChecks[j]
              /\ failsMintCheck(j, i, caller)
              /\ \A l \in 1..(j - 1) : ~failsMintCheck(l, i, caller)
  /\ \A i \in InscriptionIds, caller \in Addresses :
       mintedInscriptions[KeyOf[i]] # 0 =>
         mintResult(i, caller) = IF caller = claimant[KeyOf[i]] THEN "AlreadyMinted"
                                 ELSE "WrongClaimant"
  /\ \A i \in InscriptionIds :
       (/\ claimant[KeyOf[i]] # "none"
        /\ mintedInscriptions[KeyOf[i]] = 0
        /\ blockNumber = burnBlockHeights[KeyOf[i]])
       => mintResult(i, claimant[KeyOf[i]]) = "ConfirmationPending"

\* ---------------------------------------------------------------------- C31
\* C31: a minted marker is set only under a key with a burner fingerprint;
\* no calldata of recordBurnWithAttestation is rejected as AlreadyMinted, and
\* calldata for a minted claim is rejected as Expired, NonceReused or
\* AlreadyRecorded.
C31_AlreadyMintedUnreachable ==
  /\ \A k \in Keys : mintedInscriptions[k] # 0 => verifiedBurns[k] # U64Zero
  /\ last # [op |-> "recordBurnWithAttestation", result |-> "AlreadyMinted"]
  /\ \A x \in RecordInputs :
       LET result == recordResultOf(x) IN
       /\ result # "AlreadyMinted"
       /\ mintedInscriptions[KeyOf[x[1]]] # 0
            => result \in {"Expired", "NonceReused", "AlreadyRecorded"}

\* every recorded claim is minted, and a recordBurnWithAttestation has been
\* rejected as AlreadyRecorded
C31_RecordForMintedClaimRefused ==
  /\ last = [op |-> "recordBurnWithAttestation", result |-> "AlreadyRecorded"]
  /\ \E k \in Keys : mintedInscriptions[k] # 0
  /\ \A k \in Keys : verifiedBurns[k] # U64Zero => mintedInscriptions[k] # 0

\* ---------------------------------------------------------------------- C32
\* the nonces marked used
usedNonceSet == {n \in Nonces : usedNonces[n] # 0}

\* the claim keys a burn has been accepted for
acceptedKeys == {k \in Keys : claimant[k] # "none"}

\* C32 as stated: there are as many used nonces as claims a burn was
\* accepted for; a step that is an accepted recordBurnWithAttestation marks
\* one nonce, unused before, and adds one claim, and no other step changes
\* the used nonces or the claims.
C32_NoncesMatchRecords ==
  /\ [](Cardinality(usedNonceSet) = Cardinality(acceptedKeys))
  /\ [][(usedNonces' # usedNonces \/ acceptedKeys' # acceptedKeys)
        => /\ last' = [op |-> "recordBurnWithAttestation", result |-> "ok"]
           /\ Cardinality(usedNonceSet') = Cardinality(usedNonceSet) + 1
           /\ Cardinality(acceptedKeys') = Cardinality(acceptedKeys) + 1]_vars

\* ---------------------------------------------------------------------- C33
\* C33: a genuine attestation that passes the checks before the signature
\* check is accepted whatever the token counter and maxSupply; no step
\* lowers the counter or changes maxSupply; while nextTokenId >= maxSupply no
\* mint succeeds, a mint that passes the checks before the supply check is
\* rejected as SupplyExhausted, and a step leaves the counter at the
\* ceiling and every claim that is recorded and not minted as it was.
C33_RecordedStaysRecordedAtCeiling ==
  /\ [](\A x \in SignedInputs : reachesSignatureCheck(x) => recordResultOf(x) = "ok")
  /\ [](nextTokenId >= maxSupply =>
          \A i \in InscriptionIds, caller \in Addresses :
            mintResult(i, caller) \notin {"ok", "MintReverted"}
            /\ (mintReachesSupplyCheck(i, caller) <=> mintResult(i, caller) = "SupplyExhausted"))
  /\ [][/\ nextTokenId' >= nextTokenId
        /\ maxSupply' = maxSupply
        /\ nextTokenId >= maxSupply =>
             \A k \in Keys :
               (verifiedBurns[k] # U64Zero /\ mintedInscriptions[k] = 0)
               => (verifiedBurns'[k] = verifiedBurns[k] /\ mintedInscriptions'[k] = 0)]_vars

\* a burn has been recorded with a token minted and the counter at the
\* ceiling
C33_RecordedAtCeiling ==
  /\ last = [op |-> "recordBurnWithAttestation", result |-> "ok"]
  /\ nextTokenId >= maxSupply
  /\ totalSupply >= 1
  /\ \E k \in Keys : verifiedBurns[k] # U64Zero /\ mintedInscriptions[k] = 0

C35_RotationKeepsRecords ==
  [][\A h \in KeyHashes, caller \in Addresses :
       (last'.op = "setOracle" /\ setOracle(h, caller))
       => /\ UNCHANGED <<usedNonces, verifiedBurns, burnBlockHeights, mintedInscriptions,
                         nextTokenId, totalSupply, ownerOf, tokenURI>>
          /\ \A i \in InscriptionIds :
               /\ getBurnStatusReturns(i)' = getBurnStatusReturns(i)
               /\ \A minter \in Addresses : mintResult(i, minter)' = mintResult(i, minter)]_vars

\* the key has been rotated to K2 with a used nonce and a recorded claim
\* that its burner can mint
C35_RotatedWithMintableClaim ==
  /\ last = [op |-> "setOracle", result |-> "ok"]
  /\ oracleKeyHash = KeyHash("K2")
  /\ \E n \in Nonces : usedNonces[n] # 0
  /\ \E i \in InscriptionIds :
       /\ getBurnStatusReturns(i) = <<TRUE, FALSE>>
       /\ mintResult(i, claimant[KeyOf[i]]) = "ok"

\* ---------------------------------------------------------------------- C36
\* the calldata carrying the oracle's signature, under the submitted key, of
\* its own fields for the other vault
OtherVaultInputs ==
  {x \in RecordInputs : x[7] = OracleSign(x[6], "otherVault", x[1], x[2], x[3], x[4], x[5])}

\* C36 as stated: this vault rejects every attestation signed for the other
\* vault with InvalidSignature.
C36_OtherVaultIsInvalidSignature ==
  \A x \in OtherVaultInputs : recordResultOf(x) = "InvalidSignature"

\* C36 (as amended): this vault never accepts an attestation signed for the
\* other vault: it rejects it with InvalidSignature when the deadline has
\* not passed, the nonce is unused, the claim is unset, the collection
\* matches and the key is the stored one, and with the reason of the first
\* of these checks that fails otherwise; the storage of this vault changes
\* only in a call of this vault that is accepted.
C36_OtherVaultAttestationRefused ==
  /\ [](\A x \in OtherVaultInputs :
          LET result == recordResultOf(x) IN
          /\ result # "ok"
          /\ reachesSignatureCheck(x) <=> result = "InvalidSignature")
  /\ [][storage' # storage
        => /\ last'.result = "ok"
           /\ last'.op \in {"recordBurnWithAttestation", "mint", "setOracle"}]_vars

\* a call has been rejected at the signature check in a vault at its first
\* height with nothing recorded, where every attestation signed for the
\* other vault with the stored key and the bound collection reaches that
\* check
C36_OtherVaultAttestationTried ==
  /\ last = [op |-> "recordBurnWithAttestation", result |-> "InvalidSignature"]
  /\ blockNumber = 1
  /\ \A k \in Keys : claimant[k] = "none"
  /\ \A x \in OtherVaultInputs :
       (KeyHash(x[6]) = oracleKeyHash /\ x[5] = collectionIdHash) => reachesSignatureCheck(x)

mintedKeys == {k \in Keys : mintedInscriptions[k] # 0}

\* C38: the token counter is 1 plus the number of minted claims and no step
\* lowers it; the minted markers of the minted claims lie in 2..counter and
\* are pairwise distinct, and the token a marker names (marker - 1) carries an
\* identifier of that claim.
C38_CounterCountsMintedClaims ==
  /\ [](nextTokenId = 1 + Cardinality(mintedKeys))
  /\ [][nextTokenId' >= nextTokenId]_vars
  /\ [](\A k \in mintedKeys :
          /\ mintedInscriptions[k] \in 2..nextTokenId
          /\ tokenURI[mintedInscriptions[k] - 1] \in InscriptionIds
          /\ KeyOf[tokenURI[mintedInscriptions[k] - 1]] = k
          /\ \A other \in mintedKeys :
               other # k => mintedInscriptions[other] # mintedInscriptions[k])

\* two claims have been minted, the second one just now
C38_TwoClaimsMinted ==
  /\ last = [op |-> "mint", result |-> "ok"]
  /\ Cardinality(mintedKeys) = 2
  /\ nextTokenId = 3

burnRecord(k) == <<verifiedBurns[k], burnBlockHeights[k], mintedInscriptions[k]>>

\* the identifiers other than i that hashString maps to the key of i
sharingKey(i) == {j \in InscriptionIds : j # i /\ KeyOf[j] = KeyOf[i]}

\* C40 as stated: every identifier reads the record under its hashString;
\* once a burn has been accepted for an identifier, every other identifier
\* of equal hashString is reported verified by getBurnStatus, an attestation
\* for it that passes the deadline and nonce checks is rejected as
\* AlreadyRecorded, and while no token is minted for the key the recorded
\* claimant mints under it once the record is confirmed and supply remains;
\* a step changes the record of at most one key.
C40_EqualHashSharesRecord ==
  /\ [](\A i \in InscriptionIds : \A j \in sharingKey(i) :
          claimant[KeyOf[i]] # "none" =>
            /\ getBurnStatusReturns(j)[1] = TRUE
            /\ \A x \in SignedInputs :
                 (x[1] = j /\ blockNumber <= x[3] /\ usedNonces[x[4]] = 0)
                 => recordResultOf(x) = "AlreadyRecorded"
            /\ (/\ mintedInscriptions[KeyOf[i]] = 0
                /\ blockNumber > burnBlockHeights[KeyOf[i]]
                /\ nextTokenId < maxSupply)
               => mintResult(j, claimant[KeyOf[i]]) = "ok")
  /\ [][\A k \in Keys : burnRecord(k)' # burnRecord(k) =>
          \A other \in Keys \ {k} : burnRecord(other)' = burnRecord(other)]_vars

====
